---- MODULE Spec2Model ----
(***************************************************************************)
(* Model of the flutter_v2ray_client_desktop platform plugins.             *)
(*                                                                         *)
(*   linux/flutter_v2ray_client_desktop_plugin.cc    method_call_handler   *)
(*   windows/flutter_v2ray_client_desktop_plugin.cpp HandleMethodCall      *)
(*                                                                         *)
(* A build is one platform, one set of predefined target macros and (on    *)
(* Linux) one value of __FILE__.  The channel delivers invocations to the  *)
(* handler; the handler answers on the invocation's own response object.   *)
(* Strings are sequences of one-character strings, so that comparison,     *)
(* concatenation and g_path_get_dirname are computed character by          *)
(* character.                                                              *)
(***************************************************************************)
EXTENDS Integers, Sequences, FiniteSets, TLC

VARIABLES platform, defined, FILE, calls, responses

vars == <<platform, defined, FILE, calls, responses>>

-----------------------------------------------------------------------------
(* Bounds *)

\* invocations the channel delivers in one run
MaxCalls == 2

-----------------------------------------------------------------------------
(* Characters and string literals of the source *)

\* byte values (ASCII) of the characters that occur in method names
Code ==
  [ch \in {"2", "G", "P", "R", "a", "e", "f", "g", "h", "o", "s", "t"} |->
     CASE ch = "2" -> 50
       [] ch = "G" -> 71
       [] ch = "P" -> 80
       [] ch = "R" -> 82
       [] ch = "a" -> 97
       [] ch = "e" -> 101
       [] ch = "f" -> 102
       [] ch = "g" -> 103
       [] ch = "h" -> 104
       [] ch = "o" -> 111
       [] ch = "s" -> 115
       [] ch = "t" -> 116]

\* the method name both handlers compare against
geResPath == <<"g", "e", "R", "e", "s", "P", "a", "t", "h">>

\* method names the application layer sends
Names ==
  { geResPath,
    << >>,
    <<"f", "o", "o">>,
    <<"g", "e", "t", "R", "e", "s", "P", "a", "t", "h">>,
    <<"G", "e", "R", "e", "s", "P", "a", "t", "h">>,
    <<"g", "e", "R", "e", "s", "P", "a", "t">>,
    <<"g", "e", "R", "e", "s", "P", "a", "t", "h", "2">> }

\* invocations the application layer sends: a method name and its arguments
\* (every name without arguments; the recognised name and one unrecognised
\* name also with a map of arguments)
Invocations ==
  {<<n, "null">> : n \in Names} \cup
  {<<geResPath, "map">>, <<(<<"f", "o", "o">>), "map">>}

\* values of __FILE__ in the Linux translation unit: absolute, relative,
\* bare file name, file in the root directory
Files ==
  { <<"/", "p", "/", "l", ".", "c">>,
    <<"p", "/", "l", ".", "c">>,
    <<"l", ".", "c">>,
    <<"/", "l", ".", "c">> }

\* predefined macro of each target indicator (64-bit x86, 32-bit x86,
\* 64-bit ARM, 32-bit ARM), in the order the #if chain tests them
LinuxMacro == <<"__x86_64__", "__i386__", "__aarch64__", "__arm__">>

WindowsMacro == <<"_M_X64", "_M_IX86", "_M_ARM64", "_M_ARM">>

\* the macros a build defines for a set of indicator positions
Macros(p, target) ==
  IF p = "linux" THEN {LinuxMacro[i] : i \in target}
                 ELSE {WindowsMacro[i] : i \in target}

-----------------------------------------------------------------------------
(* Pure functions *)

\* variant: the 32-bit x86 test placed before the 64-bit x86 test
GetArchitectureLinux_reordered(defs) ==
  IF "__i386__" \in defs THEN <<"3", "2">>
  ELSE IF "__x86_64__" \in defs THEN <<"6", "4">>
  ELSE IF "__aarch64__" \in defs THEN <<"a", "r", "m", "6", "4">>
  ELSE IF "__arm__" \in defs THEN <<"a", "r", "m", "3", "2">>
  ELSE <<"u", "n", "k", "n", "o", "w", "n">>

\* Linux GetArchitecture: the #if / #elif chain over the predefined macros
GetArchitectureLinux(defs) ==
  IF "__x86_64__" \in defs THEN <<"6", "4">>
  ELSE IF "__i386__" \in defs THEN <<"3", "2">>
  ELSE IF "__aarch64__" \in defs THEN <<"a", "r", "m", "6", "4">>
  ELSE IF "__arm__" \in defs THEN <<"a", "r", "m", "3", "2">>
  ELSE <<"u", "n", "k", "n", "o", "w", "n">>

\* variant: the labels of the two ARM branches exchanged
GetArchitectureWindows_swapped(defs) ==
  IF "_M_X64" \in defs THEN <<"6", "4">>
  ELSE IF "_M_IX86" \in defs THEN <<"3", "2">>
  ELSE IF "_M_ARM64" \in defs THEN <<"a", "r", "m", "3", "2">>
  ELSE IF "_M_ARM" \in defs THEN <<"a", "r", "m", "6", "4">>
  ELSE <<"u", "n", "k", "n", "o", "w", "n">>

\* Windows GetArchitecture
GetArchitectureWindows(defs) ==
  IF "_M_X64" \in defs THEN <<"6", "4">>
  ELSE IF "_M_IX86" \in defs THEN <<"3", "2">>
  ELSE IF "_M_ARM64" \in defs THEN <<"a", "r", "m", "6", "4">>
  ELSE IF "_M_ARM" \in defs THEN <<"a", "r", "m", "3", "2">>
  ELSE <<"u", "n", "k", "n", "o", "w", "n">>

\* byte of a NUL-terminated string at position i (1-based)
ByteAt(s, i) == IF i <= Len(s) THEN Code[s[i]] ELSE 0

RECURSIVE strcmp_from(_, _, _)
strcmp_from(a, b, i) ==
  IF ByteAt(a, i) # ByteAt(b, i) THEN ByteAt(a, i) - ByteAt(b, i)
  ELSE IF ByteAt(a, i) = 0 THEN 0
  ELSE strcmp_from(a, b, i + 1)

\* variant: strncmp(a, b, strlen(a)), which accepts every prefix of b
strcmp_prefix(a, b) ==
  strcmp_from(a, SubSeq(b, 1, IF Len(a) < Len(b) THEN Len(a) ELSE Len(b)), 1)

\* C strcmp: difference of the first differing bytes, 0 when both end
strcmp(a, b) == strcmp_from(a, b, 1)

RECURSIVE traits_compare(_, _, _, _)
traits_compare(a, b, i, n) ==
  IF i > n THEN 0
  ELSE IF Code[a[i]] # Code[b[i]] THEN Code[a[i]] - Code[b[i]]
  ELSE traits_compare(a, b, i + 1, n)

\* byte folded to lower case
Fold(b) == IF b >= 65 /\ b <= 90 THEN b + 32 ELSE b

RECURSIVE traits_compare_nocase(_, _, _, _)
traits_compare_nocase(a, b, i, n) ==
  IF i > n THEN 0
  ELSE IF Fold(Code[a[i]]) # Fold(Code[b[i]]) THEN Fold(Code[a[i]]) - Fold(Code[b[i]])
  ELSE traits_compare_nocase(a, b, i + 1, n)

\* variant: a case-insensitive comparison
string_compare_nocase(a, b) ==
  LET n == IF Len(a) < Len(b) THEN Len(a) ELSE Len(b)
      r == traits_compare_nocase(a, b, 1, n)
  IN  IF r # 0 THEN r ELSE Len(a) - Len(b)

\* std::string::compare: compare the common prefix, then the lengths
string_compare(a, b) ==
  LET n == IF Len(a) < Len(b) THEN Len(a) ELSE Len(b)
      r == traits_compare(a, b, 1, n)
  IN  IF r # 0 THEN r ELSE Len(a) - Len(b)

RECURSIVE strrchr(_, _, _)
\* index of the last occurrence of ch in s[1..i], 0 when there is none
strrchr(s, ch, i) ==
  IF i = 0 THEN 0
  ELSE IF s[i] = ch THEN i
  ELSE strrchr(s, ch, i - 1)

RECURSIVE SkipSeparators(_, _)
\* while (base > file_name && G_IS_DIR_SEPARATOR (*base)) base--;
SkipSeparators(s, base) ==
  IF base > 1 /\ s[base] = "/" THEN SkipSeparators(s, base - 1) ELSE base

\* GLib g_path_get_dirname on a POSIX build
g_path_get_dirname(file_name) ==
  LET base == strrchr(file_name, "/", Len(file_name))
  IN  IF base = 0 THEN <<".">>
      ELSE SubSeq(file_name, 1, SkipSeparators(file_name, base))

\* Linux: std::string(plugin_dir) + "/resources/" + arch
ResourcesPathLinux(plugin_dir, arch) ==
  plugin_dir \o <<"/", "r", "e", "s", "o", "u", "r", "c", "e", "s", "/">> \o arch

\* variant: the Linux literal "/resources/" used on Windows
ResourcesPathWindows_leading(arch) ==
  <<"/", "r", "e", "s", "o", "u", "r", "c", "e", "s", "/">> \o arch

\* Windows: "resources/" + arch
ResourcesPathWindows(arch) ==
  <<"r", "e", "s", "o", "u", "r", "c", "e", "s", "/">> \o arch

-----------------------------------------------------------------------------
(* State *)

\* an invocation as the handler sees it, with the handler's locals
NewCall(name, args) ==
  [name |-> name, args |-> args, pc |-> "entry",
   arch |-> << >>, plugin_dir |-> << >>, resources_path |-> << >>]

Success(payload) == [kind |-> "success", has_payload |-> TRUE, payload |-> payload]

NotImplemented == [kind |-> "not_implemented", has_payload |-> FALSE, payload |-> << >>]

Init ==
  /\ platform \in {"linux", "windows"}
  /\ \E target \in SUBSET (1..4) : defined = Macros(platform, target)
  /\ FILE \in (IF platform = "linux" THEN Files ELSE {<< >>})
  /\ calls = << >>
  /\ responses = << >>

-----------------------------------------------------------------------------
(* The channel *)

\* the channel hands an invocation to the registered handler
Deliver(name, args) ==
  /\ Len(calls) < MaxCalls
  /\ calls' = Append(calls, NewCall(name, args))
  /\ responses' = Append(responses, << >>)
  /\ UNCHANGED <<platform, defined, FILE>>

\* fl_method_call_respond / MethodResult: answer on the invocation's object
Respond(c, r) == responses' = [responses EXCEPT ![c] = Append(@, r)]

-----------------------------------------------------------------------------
(* Linux: method_call_handler *)

\* variant: if (strcmp(method, "geResPath")), the == 0 forgotten
LinuxCompare_negated(c) ==
  /\ platform = "linux"
  /\ calls[c].pc = "entry"
  /\ calls' = [calls EXCEPT ![c].pc =
                 IF strcmp(calls[c].name, geResPath) # 0 THEN "build" ELSE "ni"]
  /\ UNCHANGED <<platform, defined, FILE, responses>>

LinuxCompare(c) ==
  /\ platform = "linux"
  /\ calls[c].pc = "entry"
  /\ calls' = [calls EXCEPT ![c].pc =
                 IF strcmp(calls[c].name, geResPath) = 0 THEN "build" ELSE "ni"]
  /\ UNCHANGED <<platform, defined, FILE, responses>>

LinuxBuildPath(c) ==
  /\ platform = "linux"
  /\ calls[c].pc = "build"
  /\ LET arch == GetArchitectureLinux(defined)
         plugin_dir == g_path_get_dirname(FILE)
     IN  calls' = [calls EXCEPT ![c].arch = arch,
                                ![c].plugin_dir = plugin_dir,
                                ![c].resources_path = ResourcesPathLinux(plugin_dir, arch),
                                ![c].pc = "respond"]
  /\ UNCHANGED <<platform, defined, FILE, responses>>

LinuxRespondSuccess(c) ==
  /\ platform = "linux"
  /\ calls[c].pc = "respond"
  /\ Respond(c, Success(calls[c].resources_path))
  /\ calls' = [calls EXCEPT ![c].pc = "free"]
  /\ UNCHANGED <<platform, defined, FILE>>

\* variant: the return after g_free left out, control falls through to the
\* not-implemented response
LinuxReturn_fallthrough(c) ==
  /\ platform = "linux"
  /\ calls[c].pc = "free"
  /\ calls' = [calls EXCEPT ![c].pc = "ni"]
  /\ UNCHANGED <<platform, defined, FILE, responses>>

\* g_free(plugin_dir); return;
LinuxReturn(c) ==
  /\ platform = "linux"
  /\ calls[c].pc = "free"
  /\ calls' = [calls EXCEPT ![c].pc = "done"]
  /\ UNCHANGED <<platform, defined, FILE, responses>>

LinuxRespondNotImplemented(c) ==
  /\ platform = "linux"
  /\ calls[c].pc = "ni"
  /\ Respond(c, NotImplemented)
  /\ calls' = [calls EXCEPT ![c].pc = "done"]
  /\ UNCHANGED <<platform, defined, FILE>>

-----------------------------------------------------------------------------
(* Windows: FlutterV2rayClientDesktopPlugin::HandleMethodCall *)

WindowsCompare(c) ==
  /\ platform = "windows"
  /\ calls[c].pc = "entry"
  /\ calls' = [calls EXCEPT ![c].pc =
                 IF string_compare(calls[c].name, geResPath) = 0 THEN "build" ELSE "ni"]
  /\ UNCHANGED <<platform, defined, FILE, responses>>

RECURSIVE Repeat(_, _)
Repeat(str, n) == IF n = 0 THEN << >> ELSE str \o Repeat(str, n - 1)

\* variant: resource_path a static buffer that every invocation appends to
WindowsBuildPath_static(c) ==
  /\ platform = "windows"
  /\ calls[c].pc = "build"
  /\ LET arch == GetArchitectureWindows(defined)
         earlier == Cardinality({d \in DOMAIN calls : calls[d].resources_path # << >>})
     IN  calls' = [calls EXCEPT ![c].arch = arch,
                                ![c].resources_path =
                                   Repeat(ResourcesPathWindows(arch), earlier + 1),
                                ![c].pc = "respond"]
  /\ UNCHANGED <<platform, defined, FILE, responses>>

WindowsBuildPath(c) ==
  /\ platform = "windows"
  /\ calls[c].pc = "build"
  /\ LET arch == GetArchitectureWindows(defined)
     IN  calls' = [calls EXCEPT ![c].arch = arch,
                                ![c].resources_path = ResourcesPathWindows(arch),
                                ![c].pc = "respond"]
  /\ UNCHANGED <<platform, defined, FILE, responses>>

\* variant: the result object kept in a plugin member that the most recent
\* invocation overwrites
WindowsSuccess_shared(c) ==
  /\ platform = "windows"
  /\ calls[c].pc = "respond"
  /\ Respond(Len(calls), Success(calls[c].resources_path))
  /\ calls' = [calls EXCEPT ![c].pc = "done"]
  /\ UNCHANGED <<platform, defined, FILE>>

WindowsSuccess(c) ==
  /\ platform = "windows"
  /\ calls[c].pc = "respond"
  /\ Respond(c, Success(calls[c].resources_path))
  /\ calls' = [calls EXCEPT ![c].pc = "done"]
  /\ UNCHANGED <<platform, defined, FILE>>

WindowsNotImplemented(c) ==
  /\ platform = "windows"
  /\ calls[c].pc = "ni"
  /\ Respond(c, NotImplemented)
  /\ calls' = [calls EXCEPT ![c].pc = "done"]
  /\ UNCHANGED <<platform, defined, FILE>>

-----------------------------------------------------------------------------

Next ==
  \/ \E inv \in Invocations : Deliver(inv[1], inv[2])
  \/ \E c \in DOMAIN calls : LinuxCompare(c)
  \/ \E c \in DOMAIN calls : LinuxBuildPath(c)
  \/ \E c \in DOMAIN calls : LinuxRespondSuccess(c)
  \/ \E c \in DOMAIN calls : LinuxReturn(c)
  \/ \E c \in DOMAIN calls : LinuxRespondNotImplemented(c)
  \/ \E c \in DOMAIN calls : WindowsCompare(c)
  \/ \E c \in DOMAIN calls : WindowsBuildPath(c)
  \/ \E c \in DOMAIN calls : WindowsSuccess(c)
  \/ \E c \in DOMAIN calls : WindowsNotImplemented(c)

Spec == Init /\ [][Next]_vars

-----------------------------------------------------------------------------
(* Vocabulary of the properties *)

Returned(c) == calls[c].pc = "done"

Built(c) == calls[c].pc \in {"respond", "free", "done"} /\ calls[c].name = geResPath

\* the indicator at position i is set in this build
IsSet(i) ==
  IF platform = "linux" THEN LinuxMacro[i] \in defined ELSE WindowsMacro[i] \in defined

Target == {i \in 1..4 : IsSet(i)}

Label == << <<"6", "4">>, <<"3", "2">>, <<"a", "r", "m", "6", "4">>,
            <<"a", "r", "m", "3", "2">> >>

Unknown == <<"u", "n", "k", "n", "o", "w", "n">>

\* label of the earliest set indicator, "unknown" when none is set
FirstMatch ==
  IF Target = {} THEN Unknown
  ELSE Label[CHOOSE i \in Target : \A j \in Target : i <= j]

ResourcesSlash == <<"r", "e", "s", "o", "u", "r", "c", "e", "s", "/">>

Resources == <<"r", "e", "s", "o", "u", "r", "c", "e", "s">>

\* the path the platform resolves for this build
ResolvedPath ==
  IF platform = "linux"
    THEN g_path_get_dirname(FILE) \o <<"/">> \o ResourcesSlash \o FirstMatch
    ELSE ResourcesSlash \o FirstMatch

RECURSIVE Segments(_)
\* the components of a path between its separators
Segments(s) ==
  IF \A i \in 1..Len(s) : s[i] # "/" THEN <<s>>
  ELSE LET i == CHOOSE k \in 1..Len(s) : s[k] = "/" /\ \A j \in 1..(k - 1) : s[j] # "/"
       IN  <<SubSeq(s, 1, i - 1)>> \o Segments(SubSeq(s, i + 1, Len(s)))

LastTwo(q) == SubSeq(q, Len(q) - 1, Len(q))

-----------------------------------------------------------------------------
(* Properties *)

\* C1: every invocation named exactly "geResPath" is only ever answered with
\* a success response whose payload is the platform's resolved resources
\* path for the build's label, and has that answer once it returned.
GeResPathSucceeds ==
  \A c \in DOMAIN calls :
    calls[c].name = geResPath =>
      /\ \A i \in DOMAIN responses[c] : responses[c][i] = Success(ResolvedPath)
      /\ Returned(c) => Len(responses[c]) >= 1

\* a "geResPath" invocation with arguments, after an earlier invocation, returned
GeResPathSucceedsWitness ==
  /\ Len(calls) = 2
  /\ calls[2].name = geResPath /\ calls[2].args = "map" /\ Returned(2)
  /\ responses[2] = <<Success(ResolvedPath)>>

\* C2: every invocation whose name differs from "geResPath" is only ever
\* answered not-implemented, without payload, and never with success.
OtherNamesNotImplemented ==
  \A c \in DOMAIN calls :
    calls[c].name # geResPath =>
      /\ \A i \in DOMAIN responses[c] :
           /\ responses[c][i].kind = "not_implemented"
           /\ ~responses[c][i].has_payload
      /\ Returned(c) => Len(responses[c]) >= 1

\* a strict prefix and the corrected spelling were both answered
OtherNamesNotImplementedWitness ==
  /\ Len(calls) = 2
  /\ calls[1].name = <<"g", "e", "R", "e", "s", "P", "a", "t">>
  /\ calls[2].name = <<"g", "e", "t", "R", "e", "s", "P", "a", "t", "h">>
  /\ Returned(1) /\ Returned(2)
  /\ responses[1] = <<NotImplemented>> /\ responses[2] = <<NotImplemented>>

\* C3: GetArchitecture returns one of the five labels, and for a build that
\* sets exactly one indicator the label of that indicator, for a build that
\* sets none "unknown".
ArchitectureLabels ==
  \A c \in DOMAIN calls :
    Built(c) =>
      /\ calls[c].arch \in {Label[1], Label[2], Label[3], Label[4], Unknown}
      /\ Target = {1} => calls[c].arch = <<"6", "4">>
      /\ Target = {2} => calls[c].arch = <<"3", "2">>
      /\ Target = {3} => calls[c].arch = <<"a", "r", "m", "6", "4">>
      /\ Target = {4} => calls[c].arch = <<"a", "r", "m", "3", "2">>
      /\ Target = {} => calls[c].arch = <<"u", "n", "k", "n", "o", "w", "n">>

\* a 64-bit ARM build classified its target
ArchitectureLabelsWitness ==
  /\ Target = {3}
  /\ \E c \in DOMAIN calls : Built(c) /\ calls[c].arch = <<"a", "r", "m", "6", "4">>

\* C4: on Windows the success payload is exactly "resources/" followed by
\* the label: no leading separator, no prefix, no trailing separator.
WindowsRelativePath ==
  platform = "windows" =>
    \A c \in DOMAIN calls : \A i \in DOMAIN responses[c] :
      responses[c][i].kind = "success" =>
        LET p == responses[c][i].payload
        IN  /\ p = ResourcesSlash \o calls[c].arch
            /\ calls[c].arch \in {Label[1], Label[2], Label[3], Label[4], Unknown}
            /\ Head(p) # "/" /\ p[Len(p)] # "/"
            /\ Segments(p) = <<Resources, calls[c].arch>>
            /\ calls[c].arch = <<"6", "4">> =>
                 p = <<"r", "e", "s", "o", "u", "r", "c", "e", "s", "/", "6", "4">>

\* a Windows x64 build answered "resources/64"
WindowsRelativePathWitness ==
  /\ platform = "windows"
  /\ \E c \in DOMAIN calls :
       /\ Returned(c)
       /\ responses[c] =
            <<Success(<<"r", "e", "s", "o", "u", "r", "c", "e", "s", "/", "6", "4">>)>>

\* C5: on Linux the success payload is an absolute path whose final two
\* segments are "resources" and the label, whatever __FILE__ is.
LinuxAbsolutePath ==
  platform = "linux" =>
    \A c \in DOMAIN calls : \A i \in DOMAIN responses[c] :
      responses[c][i].kind = "success" =>
        LET p == responses[c][i].payload
        IN  /\ Head(p) = "/"
            /\ LastTwo(Segments(p)) = <<Resources, calls[c].arch>>

\* C6: within one build, all "geResPath" invocations compute the same label
\* and receive the same path, whatever was invoked before and whatever their
\* arguments.
Deterministic ==
  \A c1 \in DOMAIN calls, c2 \in DOMAIN calls :
    /\ (Built(c1) /\ Built(c2)) =>
         /\ calls[c1].arch = calls[c2].arch
         /\ calls[c1].resources_path = calls[c2].resources_path
    /\ \A i \in DOMAIN responses[c1], j \in DOMAIN responses[c2] :
         (responses[c1][i].kind = "success" /\ responses[c2][j].kind = "success")
           => responses[c1][i].payload = responses[c2][j].payload

\* two "geResPath" invocations with different arguments were both answered
DeterministicWitness ==
  /\ Len(calls) = 2
  /\ calls[1].name = geResPath /\ calls[2].name = geResPath
  /\ calls[1].args # calls[2].args
  /\ Returned(1) /\ Returned(2)
  /\ Len(responses[1]) = 1 /\ responses[1] = responses[2]
  /\ responses[1][1].kind = "success"

\* C7: an invocation is never answered twice, is answered once the handler
\* has returned, and the answer is a success carrying a path or a
\* not-implemented response.
AnsweredExactlyOnce ==
  \A c \in DOMAIN calls :
    /\ Len(responses[c]) <= 1
    /\ Returned(c) => Len(responses[c]) = 1
    /\ \A i \in DOMAIN responses[c] :
         \/ responses[c][i].kind = "success" /\ responses[c][i].has_payload
         \/ responses[c][i].kind = "not_implemented"

\* the handler returned from its success path and from its fall-back path
AnsweredExactlyOnceWitness ==
  /\ Len(calls) = 2
  /\ Returned(1) /\ Returned(2)
  /\ Len(responses[1]) = 1 /\ Len(responses[2]) = 1
  /\ responses[1][1].kind = "success"
  /\ responses[2][1].kind = "not_implemented"

\* C8: with invocations in flight together, an invocation has no response
\* before its own handler answers, and afterwards exactly the response its
\* own method name determines.
Isolation ==
  \A c \in DOMAIN calls :
    /\ calls[c].pc \in {"entry", "build", "respond", "ni"} => responses[c] = << >>
    /\ calls[c].pc \in {"free", "done"} =>
         responses[c] = IF calls[c].name = geResPath
                          THEN <<Success(ResolvedPath)>>
                          ELSE <<NotImplemented>>

\* an unrecognised invocation was handled completely while an earlier
\* "geResPath" invocation was between building its path and answering
IsolationWitness ==
  /\ Len(calls) = 2
  /\ calls[1].name = geResPath /\ calls[1].pc = "respond" /\ responses[1] = << >>
  /\ calls[2].name # geResPath /\ Returned(2) /\ responses[2] = <<NotImplemented>>

\* C9: for every combination of the four indicators, GetArchitecture returns
\* the label of the earliest set indicator, and "unknown" exactly when none
\* is set.
FirstMatchWins ==
  \A c \in DOMAIN calls :
    Built(c) =>
      /\ \A i \in 1..4 :
           (IsSet(i) /\ \A j \in 1..(i - 1) : ~IsSet(j)) => calls[c].arch = Label[i]
      /\ calls[c].arch = Unknown <=> Target = {}

\* a build with both x86 indicators and an ARM indicator set was classified
FirstMatchWinsWitness ==
  /\ Target = {1, 2, 4}
  /\ \E c \in DOMAIN calls : Built(c) /\ calls[c].arch = Label[1]

\* C10: the handler of this platform answers every invocation with the kind
\* of response the other platform's comparison gives for the same name,
\* classifies the target to the label the other platform's GetArchitecture
\* gives, and the Linux payload is the plugin directory, "/", and the Windows
\* payload.
PlatformsEquivalent ==
  \A c \in DOMAIN calls :
    Returned(c) =>
      LET other_matches ==
            IF platform = "linux"
              THEN string_compare(calls[c].name, geResPath) = 0
              ELSE strcmp(calls[c].name, geResPath) = 0
          other_arch ==
            IF platform = "linux"
              THEN GetArchitectureWindows(Macros("windows", Target))
              ELSE GetArchitectureLinux(Macros("linux", Target))
      IN  /\ Len(responses[c]) = 1
          /\ responses[c][1].kind = IF other_matches THEN "success" ELSE "not_implemented"
          /\ responses[c][1].kind = "success" =>
               /\ calls[c].arch = other_arch
               /\ IF platform = "linux"
                    THEN responses[c][1].payload =
                           calls[c].plugin_dir \o <<"/">> \o ResourcesPathWindows(other_arch)
                    ELSE \A f \in Files :
                           ResourcesPathLinux(g_path_get_dirname(f), other_arch) =
                             g_path_get_dirname(f) \o <<"/">> \o responses[c][1].payload

\* the case variant was refused and "geResPath" was answered in one run
PlatformsEquivalentWitness ==
  /\ Len(calls) = 2
  /\ calls[1].name = <<"G", "e", "R", "e", "s", "P", "a", "t", "h">>
  /\ calls[2].name = geResPath
  /\ Returned(1) /\ Returned(2)
  /\ responses[1] = <<NotImplemented>>
  /\ responses[2][1].kind = "success"

====
